---- MODULE Spec2Model ----
(***************************************************************************)
(* A model of app.py, the Flask IVR of basic-ivr-python: the IVR state     *)
(* table, the enter_state loop, exit_state and the /webhook dispatcher,    *)
(* with the requests of several calls interleaved.                         *)
(***************************************************************************)
EXTENDS Integers, Sequences, FiniteSets, TLC

(* ---------------------------------------------------------------------- *)
(* Bounds of the model                                                     *)
(* ---------------------------------------------------------------------- *)

\* number of calls whose requests are served concurrently
NumCalls == 2

\* the states one request may enter before the model stops following it
\* (only a table with a cycle of str exit handlers gets there)
MaxEntered == 5

Calls == 1..NumCalls

(* ---------------------------------------------------------------------- *)
(* Values                                                                  *)
(* ---------------------------------------------------------------------- *)

\* Python's None: the value of session.get('ivr_state') on a new call and
\* of request.form.get('Digits') when the form has no Digits field.
None == "None"

\* request.form.get('Digits'): the keys of the menu, a key that is in no
\* table, the empty string, and an absent field.
Inputs == {"1", "2", "3", "9", "0", "7", "", None}

\* TwiML verbs, as the nodes the twilio helper library builds.
Say(text) == [verb |-> "Say", text |-> text]

Pause == [verb |-> "Pause"]

Record == [verb |-> "Record"]

Enqueue(name) == [verb |-> "Enqueue", name |-> name]

Dial(number) == [verb |-> "Dial", number |-> number]

Gather(action_on_empty_result, num_digits, nested) ==
    [verb |-> "Gather", action_on_empty_result |-> action_on_empty_result,
     num_digits |-> num_digits, nested |-> nested]

\* What an enter handler returns: one verb, or a Python list of verbs.
One(verb) == [list |-> FALSE, value |-> verb]

List(verbs) == [list |-> TRUE, value |-> verbs]

(* ---------------------------------------------------------------------- *)
(* Enter handlers                                                          *)
(* ---------------------------------------------------------------------- *)

enter_greeting == One(Say("Welcome to ACME, Inc."))

enter_menu ==
    One(Gather(TRUE, 1,
        <<Say("Listen to the following menu options. For sales, press one. For support, press two. For our business hours, press three. To repeat these options, press nine. To speak with the receptionist, press zero.")>>))

enter_sales ==
    List(<<Say("All our sales representatives are currently busy, please leave us a message and we will return your call as soon as possible."),
           Record>>)

enter_support ==
    List(<<Say("You are being transferred to the support line. A representative will be with you shortly."),
           Enqueue("support")>>)

enter_hours ==
    One(Gather(TRUE, 1,
        <<Say("We are open Mondays through Fridays from 9 AM to 6 PM."),
          Pause,
          Say("Press 1 to repeat this message or any other key to go back to the menu.")>>))

enter_reception == One(Dial("+19715701777"))

enter_error == One(Say("The option that you selected is invalid."))

(* ---------------------------------------------------------------------- *)
(* Exit handlers                                                           *)
(* ---------------------------------------------------------------------- *)

\* transitions with the targets of "1" and "2" exchanged.
transitions_swapped ==
    ("1" :> "support") @@ ("2" :> "sales") @@ ("3" :> "hours") @@
    ("9" :> "menu") @@ ("0" :> "reception")

\* The dictionary of exit_menu.
transitions ==
    ("1" :> "sales") @@ ("2" :> "support") @@ ("3" :> "hours") @@
    ("9" :> "menu") @@ ("0" :> "reception")

\* exit_menu with an unknown key sent back to the menu without the error
\* message.
exit_menu_silent(Digits) ==
    IF Digits \in DOMAIN transitions THEN transitions[Digits] ELSE "menu"

\* exit_menu with a default state that is no key of IVR.
exit_menu_typo(Digits) ==
    IF Digits \in DOMAIN transitions THEN transitions[Digits] ELSE "invalid"

\* exit_menu, as the state it hands to enter_state.
exit_menu(Digits) ==
    IF Digits \in DOMAIN transitions THEN transitions[Digits] ELSE "error"

\* exit_hours with the menu's keys honoured in the hours state.
exit_hours_menu_keys(Digits) ==
    IF Digits = "1" THEN "hours"
    ELSE IF Digits \in DOMAIN transitions THEN transitions[Digits] ELSE "menu"

\* exit_hours sending the caller back to the start of the call.
exit_hours_greeting(Digits) ==
    IF Digits = "1" THEN "hours" ELSE "greeting"

\* exit_hours, as the state it hands to enter_state.
exit_hours(Digits) ==
    IF Digits = "1" THEN "hours" ELSE "menu"

\* The three kinds of value in the second slot of an IVR entry.
NoHandler == [kind |-> "None", name |-> ""]

Str(name) == [kind |-> "str", name |-> name]

Function(name) == [kind |-> "function", name |-> name]

(* ---------------------------------------------------------------------- *)
(* The state table                                                         *)
(* ---------------------------------------------------------------------- *)

\* The table with 'error' going on to 'greeting' instead of 'menu'.
IVR_error_greets ==
    ("greeting"  :> [enter |-> enter_greeting,  exit |-> Str("menu")]) @@
    ("menu"      :> [enter |-> enter_menu,      exit |-> Function("exit_menu")]) @@
    ("sales"     :> [enter |-> enter_sales,     exit |-> NoHandler]) @@
    ("support"   :> [enter |-> enter_support,   exit |-> NoHandler]) @@
    ("hours"     :> [enter |-> enter_hours,     exit |-> Function("exit_hours")]) @@
    ("reception" :> [enter |-> enter_reception, exit |-> NoHandler]) @@
    ("error"     :> [enter |-> enter_error,     exit |-> Str("greeting")])

IVR ==
    ("greeting"  :> [enter |-> enter_greeting,  exit |-> Str("menu")]) @@
    ("menu"      :> [enter |-> enter_menu,      exit |-> Function("exit_menu")]) @@
    ("sales"     :> [enter |-> enter_sales,     exit |-> NoHandler]) @@
    ("support"   :> [enter |-> enter_support,   exit |-> NoHandler]) @@
    ("hours"     :> [enter |-> enter_hours,     exit |-> Function("exit_hours")]) @@
    ("reception" :> [enter |-> enter_reception, exit |-> NoHandler]) @@
    ("error"     :> [enter |-> enter_error,     exit |-> Str("menu")])

\* A table with a cycle of str exit handlers and nothing else: 'greeting'
\* goes on to 'menu' and 'menu' back to 'greeting'.
IVR_cycle ==
    ("greeting" :> [enter |-> enter_greeting, exit |-> Str("menu")]) @@
    ("menu"     :> [enter |-> enter_menu,     exit |-> Str("greeting")])

\* The shipped table with the str exit handler of 'error' naming a state
\* that is no key.
IVR_dangling ==
    ("error" :> [enter |-> enter_error, exit |-> Str("main_menu")]) @@ IVR

\* callable(exit_handler): only a function can be called; calling None or a
\* str raises TypeError.
Callable(handler) == handler.kind = "function"

\* exit_handler(), for a handler that is a function.
Call(handler, Digits) ==
    IF handler.name = "exit_menu" THEN exit_menu(Digits) ELSE exit_hours(Digits)

\* The loop going on for every exit handler that is not a function.
IsStr_not_function(handler) == handler.kind # "function"

\* isinstance(exit_handler, str)
IsStr(handler) == handler.kind = "str"

\* A new call sent to the menu, past the greeting.
NewCallState_menu == "menu"

\* The state of a new call.
NewCallState == "greeting"

(* ---------------------------------------------------------------------- *)
(* State                                                                   *)
(* ---------------------------------------------------------------------- *)

VARIABLES
    session,    \* the session store: session key -> ivr_state (None: not set)
    pc,         \* per call: where its current request is
    stored,     \* per call: `state` of ivr_webhook, as read from the session
    digits,     \* per call: request.form.get('Digits') of the request
    state,      \* per call: `state` of enter_state, the cursor
    response,   \* per call: `response` of enter_state, the verbs appended
    entered,    \* per call: the states entered by the request, in order
    result,     \* per call: how the request ended
    own,        \* per call: the last ivr_state written by this call itself
    table       \* which dictionary the process was started with as IVR

vars == <<session, pc, stored, digits, state, response, entered, result, own,
          table>>

\* The module-level dictionary IVR of the running process.
Table ==
    CASE table = "IVR" -> IVR
      [] table = "IVR_cycle" -> IVR_cycle
      [] table = "IVR_dangling" -> IVR_dangling

\* One ivr_state for the whole process, as a module-level global would be.
SessionKey_global(c) == 1

\* Flask's session is the session of the request's own client: each call has
\* its own cookie.
SessionKey(c) == c

SessionKeys == {SessionKey(c) : c \in Calls}

\* The session written before the loop only: later iterations of the loop
\* leave it as it is.
Persisted_first(c, st, first) ==
    IF first THEN st ELSE session[SessionKey(c)]

\* The session written at the end of an iteration, with the state that
\* iteration was on, instead of at the top with the state it is about to
\* enter.
Persisted_previous(c, st, first) ==
    IF first THEN st ELSE entered[c][Len(entered[c])]

\* The value enter_state writes to session['ivr_state'] at the top of its
\* loop (first: the first time round).
Persisted(c, st, first) == st

\* The verbs of a handler put in front of the response instead of behind.
AppendActions_in_front(resp, actions) ==
    IF actions.list THEN actions.value \o resp ELSE <<actions.value>> \o resp

\* response.append(action) for every action of the handler's result.
AppendActions(resp, actions) ==
    IF actions.list THEN resp \o actions.value ELSE Append(resp, actions.value)

Init ==
    /\ session = [k \in SessionKeys |-> None]
    /\ pc = [c \in Calls |-> "idle"]
    /\ stored = [c \in Calls |-> None]
    /\ digits = [c \in Calls |-> None]
    /\ state = [c \in Calls |-> None]
    /\ response = [c \in Calls |-> <<>>]
    /\ entered = [c \in Calls |-> <<>>]
    /\ result = [c \in Calls |-> "none"]
    /\ own = [c \in Calls |-> None]
    /\ table = "IVR"

(* ---------------------------------------------------------------------- *)
(* Operations                                                              *)
(* ---------------------------------------------------------------------- *)

\* enter_state, top of the loop, on state st: session['ivr_state'] = state,
\* then the lookup IVR[state], which raises KeyError for a state that is no
\* key.
enter_state_top(c, st, first) ==
    /\ session' = [session EXCEPT ![SessionKey(c)] = Persisted(c, st, first)]
    /\ own' = [own EXCEPT ![c] = Persisted(c, st, first)]
    /\ state' = [state EXCEPT ![c] = st]
    /\ IF st \in DOMAIN Table
       THEN /\ entered' = [entered EXCEPT ![c] =
                              IF first THEN <<st>> ELSE Append(@, st)]
            /\ pc' = [pc EXCEPT ![c] = "entered"]
            /\ result' = [result EXCEPT ![c] = "none"]
       ELSE /\ entered' = [entered EXCEPT ![c] = IF first THEN <<>> ELSE @]
            /\ pc' = [pc EXCEPT ![c] = "idle"]
            /\ result' = [result EXCEPT ![c] = "KeyError"]

\* exit_state following a str exit handler as enter_state does, instead of
\* calling it.
exit_state_follows_str(c, st, Digits) ==
    IF st \notin DOMAIN Table
    THEN /\ result' = [result EXCEPT ![c] = "KeyError"]
         /\ entered' = [entered EXCEPT ![c] = <<>>]
         /\ state' = [state EXCEPT ![c] = None]
         /\ UNCHANGED <<session, own, pc>>
    ELSE
    LET exit_handler == Table[st].exit IN
    IF Callable(exit_handler) \/ IsStr(exit_handler)
    THEN enter_state_top(c, IF Callable(exit_handler)
                            THEN Call(exit_handler, Digits)
                            ELSE exit_handler.name, TRUE)
    ELSE /\ result' = [result EXCEPT ![c] = "TypeError"]
         /\ entered' = [entered EXCEPT ![c] = <<>>]
         /\ state' = [state EXCEPT ![c] = None]
         /\ UNCHANGED <<session, own, pc>>

\* exit_state dropping the ivr_state of the session when the exit handler
\* cannot be called.
exit_state_clears_session(c, st, Digits) ==
    IF st \notin DOMAIN Table
    THEN /\ result' = [result EXCEPT ![c] = "KeyError"]
         /\ entered' = [entered EXCEPT ![c] = <<>>]
         /\ state' = [state EXCEPT ![c] = None]
         /\ UNCHANGED <<session, own, pc>>
    ELSE
    LET exit_handler == Table[st].exit IN
    IF Callable(exit_handler)
    THEN enter_state_top(c, Call(exit_handler, Digits), TRUE)
    ELSE /\ result' = [result EXCEPT ![c] = "TypeError"]
         /\ entered' = [entered EXCEPT ![c] = <<>>]
         /\ state' = [state EXCEPT ![c] = None]
         /\ session' = [session EXCEPT ![SessionKey(c)] = None]
         /\ own' = [own EXCEPT ![c] = None]
         /\ UNCHANGED pc

\* exit_state(state): the lookup IVR[state] raises KeyError for a state that
\* is no key; otherwise the exit handler of the state is called. A function
\* resolves the next state and calls enter_state on it; None and str are not
\* callable, and the request ends in a TypeError before anything is entered.
exit_state(c, st, Digits) ==
    IF st \notin DOMAIN Table
    THEN /\ result' = [result EXCEPT ![c] = "KeyError"]
         /\ entered' = [entered EXCEPT ![c] = <<>>]
         /\ state' = [state EXCEPT ![c] = None]
         /\ UNCHANGED <<session, own, pc>>
    ELSE
    LET exit_handler == Table[st].exit IN
    IF Callable(exit_handler)
    THEN enter_state_top(c, Call(exit_handler, Digits), TRUE)
    ELSE /\ result' = [result EXCEPT ![c] = "TypeError"]
         /\ entered' = [entered EXCEPT ![c] = <<>>]
         /\ state' = [state EXCEPT ![c] = None]
         /\ UNCHANGED <<session, own, pc>>

\* ivr_webhook with one VoiceResponse kept from request to request, instead
\* of a new one made by each enter_state.
ivr_webhook_keeps_response(c, Digits) ==
    /\ pc[c] = "idle"
    /\ stored' = [stored EXCEPT ![c] = session[SessionKey(c)]]
    /\ digits' = [digits EXCEPT ![c] = Digits]
    /\ IF session[SessionKey(c)] = None
       THEN enter_state_top(c, NewCallState, TRUE)
       ELSE exit_state(c, session[SessionKey(c)], Digits)
    /\ UNCHANGED <<response, table>>

\* ivr_webhook: a request of call c arrives with Digits. The stored state is
\* read from the session; a new call goes to enter_state('greeting'), any
\* other to exit_state(state). enter_state starts with an empty response and
\* runs the top of its loop for the first time.
ivr_webhook(c, Digits) ==
    /\ pc[c] = "idle"
    /\ stored' = [stored EXCEPT ![c] = session[SessionKey(c)]]
    /\ digits' = [digits EXCEPT ![c] = Digits]
    /\ response' = [response EXCEPT ![c] = <<>>]
    /\ IF session[SessionKey(c)] = None
       THEN enter_state_top(c, NewCallState, TRUE)
       ELSE exit_state(c, session[SessionKey(c)], Digits)
    /\ UNCHANGED table

\* enter_state, rest of the loop body: the enter handler is called and its
\* verbs are appended; a str exit handler becomes the next state of the
\* loop, anything else returns the response.
enter_state_run(c) ==
    /\ pc[c] = "entered"
    /\ response' = [response EXCEPT ![c] = AppendActions(@, Table[state[c]].enter)]
    /\ LET exit_handler == Table[state[c]].exit IN
       IF IsStr(exit_handler)
       THEN /\ state' = [state EXCEPT ![c] = exit_handler.name]
            /\ pc' = [pc EXCEPT ![c] = "loop"]
            /\ result' = result
       ELSE /\ state' = state
            /\ pc' = [pc EXCEPT ![c] = "idle"]
            /\ result' = [result EXCEPT ![c] = "response"]
    /\ UNCHANGED <<session, stored, digits, entered, own, table>>

\* enter_state, back at the top of the loop with the next state. The loop
\* has no bound of its own: the model follows it for MaxEntered states.
enter_state_loop(c) ==
    /\ pc[c] = "loop"
    /\ Len(entered[c]) < MaxEntered
    /\ enter_state_top(c, state[c], FALSE)
    /\ UNCHANGED <<stored, digits, response, table>>

Next ==
    \E c \in Calls :
        \/ \E Digits \in Inputs : ivr_webhook(c, Digits)
        \/ enter_state_run(c)
        \/ enter_state_loop(c)

Spec == Init /\ [][Next]_vars

\* The webhook applied to one call alone, from every ivr_state the table
\* can put in its session (exit_state on every key of IVR), or from none.
InitUnit ==
    /\ session \in {s \in [SessionKeys -> DOMAIN IVR \cup {None}] :
                        \A k \in SessionKeys \ {SessionKey(1)} : s[k] = None}
    /\ own = [c \in Calls |-> session[SessionKey(c)]]
    /\ pc = [c \in Calls |-> "idle"]
    /\ stored = [c \in Calls |-> None]
    /\ digits = [c \in Calls |-> None]
    /\ state = [c \in Calls |-> None]
    /\ response = [c \in Calls |-> <<>>]
    /\ entered = [c \in Calls |-> <<>>]
    /\ result = [c \in Calls |-> "none"]
    /\ table = "IVR"

NextUnit ==
    \/ \E Digits \in Inputs : ivr_webhook(1, Digits)
    \/ enter_state_run(1)
    \/ enter_state_loop(1)

SpecUnit == InitUnit /\ [][NextUnit]_vars

\* The process started with the cyclic table.
InitCycle ==
    /\ session = [k \in SessionKeys |-> None]
    /\ pc = [c \in Calls |-> "idle"]
    /\ stored = [c \in Calls |-> None]
    /\ digits = [c \in Calls |-> None]
    /\ state = [c \in Calls |-> None]
    /\ response = [c \in Calls |-> <<>>]
    /\ entered = [c \in Calls |-> <<>>]
    /\ result = [c \in Calls |-> "none"]
    /\ own = [c \in Calls |-> None]
    /\ table = "IVR_cycle"

SpecCycle == InitCycle /\ [][Next]_vars

\* The process started with the table that has the dangling reference.
InitDangling ==
    /\ session = [k \in SessionKeys |-> None]
    /\ pc = [c \in Calls |-> "idle"]
    /\ stored = [c \in Calls |-> None]
    /\ digits = [c \in Calls |-> None]
    /\ state = [c \in Calls |-> None]
    /\ response = [c \in Calls |-> <<>>]
    /\ entered = [c \in Calls |-> <<>>]
    /\ result = [c \in Calls |-> "none"]
    /\ own = [c \in Calls |-> None]
    /\ table = "IVR_dangling"

SpecDangling == InitDangling /\ [][Next]_vars

\* enter_state run to its return with no other request in between: the
\* response and the ivr_state it leaves.
RECURSIVE EnterAlone(_, _)
EnterAlone(st, resp) ==
    LET appended == AppendActions(resp, IVR[st].enter) IN
    IF IsStr(IVR[st].exit)
    THEN EnterAlone(IVR[st].exit.name, appended)
    ELSE [response |-> appended, ivr_state |-> st]

\* ivr_webhook run alone on a stored state and Digits.
TurnAlone(st, Digits) ==
    IF st = None THEN EnterAlone(NewCallState, <<>>)
    ELSE IF Callable(IVR[st].exit)
         THEN EnterAlone(Call(IVR[st].exit, Digits), <<>>)
         ELSE [response |-> <<>>, ivr_state |-> st]

(* ---------------------------------------------------------------------- *)
(* Reading a finished request                                              *)
(* ---------------------------------------------------------------------- *)

\* The request of call c has ended, with a response or with an exception.
Done(c) == pc[c] = "idle" /\ result[c] # "none"

\* The request of call c has returned its response.
Returned(c) == pc[c] = "idle" /\ result[c] = "response"

\* The ivr_state of call c as its next request will read it.
CurrentState(c) == session[SessionKey(c)]

MenuKeys == {"1", "2", "3", "9", "0"}

(* ---------------------------------------------------------------------- *)
(* C1..C5: the first turn, the menu resolver, the hours resolver           *)
(* ---------------------------------------------------------------------- *)

\* C1: a request of a call with no stored state enters 'greeting' first,
\* whatever its Digits are, and returns exactly two verbs: the greeting's
\* Say, then the menu's Gather.
C1_NewCallGreetsThenMenu ==
    \A c \in Calls :
        /\ (stored[c] = None /\ entered[c] # <<>>) => entered[c][1] = "greeting"
        /\ (Done(c) /\ stored[c] = None) =>
              /\ result[c] = "response"
              /\ Len(response[c]) = 2
              /\ response[c][1] = Say("Welcome to ACME, Inc.")
              /\ response[c][1].verb = "Say"
              /\ response[c][2] = enter_menu.value
              /\ response[c][2].verb = "Gather"

\* A new call's request that carried a menu digit has returned.
C1_Witness ==
    \E c \in Calls : Returned(c) /\ stored[c] = None /\ digits[c] = "1"

\* C2: when the request of a call with no stored state has ended, the
\* call's ivr_state is 'menu', not 'greeting'.
C2_NewCallStoresMenu ==
    \A c \in Calls : (Done(c) /\ stored[c] = None) => CurrentState(c) = "menu"

\* A new call's request has returned after entering greeting and menu.
C2_Witness ==
    \E c \in Calls :
        Returned(c) /\ stored[c] = None /\ entered[c] = <<"greeting", "menu">>

\* C3: in a request whose stored state is 'menu' the first state entered is
\* sales for "1", support for "2", hours for "3", menu for "9", reception
\* for "0", and error for every other input, empty and absent included; and
\* such a request does enter a state.
C3_MenuResolver ==
    \A c \in Calls :
        stored[c] = "menu" =>
            /\ Done(c) => entered[c] # <<>>
            /\ entered[c] # <<>> =>
                  entered[c][1] =
                      CASE digits[c] = "1" -> "sales"
                        [] digits[c] = "2" -> "support"
                        [] digits[c] = "3" -> "hours"
                        [] digits[c] = "9" -> "menu"
                        [] digits[c] = "0" -> "reception"
                        [] OTHER -> "error"

\* A request on 'menu' with no Digits field has ended, and one with "0".
C3_Witness ==
    /\ \E c \in Calls : Done(c) /\ stored[c] = "menu" /\ digits[c] = None
    /\ \E c \in Calls : Done(c) /\ stored[c] = "menu" /\ digits[c] = "0"

\* C4: a request whose stored state is 'menu' and whose input is no menu
\* key does not fail: it returns the error state's Say followed by the
\* menu's verbs, and leaves the ivr_state at 'menu'.
C4_InvalidInputRecovers ==
    \A c \in Calls :
        (Done(c) /\ stored[c] = "menu" /\ digits[c] \notin MenuKeys) =>
            /\ result[c] = "response"
            /\ response[c] = <<Say("The option that you selected is invalid."),
                               enter_menu.value>>
            /\ CurrentState(c) = "menu"

\* Requests on 'menu' with "" and with "7" have returned.
C4_Witness ==
    \E c1, c2 \in Calls :
        /\ Returned(c1) /\ stored[c1] = "menu" /\ digits[c1] = ""
        /\ Returned(c2) /\ stored[c2] = "menu" /\ digits[c2] = "7"

\* C5: a request whose stored state is 'hours' re-enters 'hours' for "1"
\* (the hours prompt again, ivr_state 'hours') and enters 'menu' for every
\* other input (the menu prompt, ivr_state 'menu'); it never enters 'error'.
C5_HoursResolver ==
    \A c \in Calls :
        stored[c] = "hours" =>
            /\ \A i \in 1..Len(entered[c]) : entered[c][i] # "error"
            /\ Done(c) =>
                  /\ result[c] = "response"
                  /\ IF digits[c] = "1"
                     THEN /\ entered[c] = <<"hours">>
                          /\ response[c] = <<enter_hours.value>>
                          /\ CurrentState(c) = "hours"
                     ELSE /\ entered[c] = <<"menu">>
                          /\ response[c] = <<enter_menu.value>>
                          /\ CurrentState(c) = "menu"

\* Requests on 'hours' with "1" and with the menu digit "3" have returned.
C5_Witness ==
    \E c1, c2 \in Calls :
        /\ Returned(c1) /\ stored[c1] = "hours" /\ digits[c1] = "1"
        /\ Returned(c2) /\ stored[c2] = "hours" /\ digits[c2] = "3"

(* ---------------------------------------------------------------------- *)
(* C6..C10: stored states, terminal states, calls side by side, the table  *)
(* ---------------------------------------------------------------------- *)

TerminalStates == {"sales", "support", "reception"}

AutoChainStates == {"greeting", "error"}

\* C6: whenever a request starts with a stored state, the exit handler of
\* that state is a function: no request starts on sales, support, reception,
\* greeting or error.
C6_StoredStateIsInputDriven ==
    \A c \in Calls : stored[c] # None => stored[c] \in {"menu", "hours"}

\* C7: enter_state on sales, support or reception enters that state and no
\* other, returns that state's own verbs, and leaves it as the ivr_state.
C7_TerminalReturnsAtOnce ==
    \A c \in Calls :
        (entered[c] # <<>> /\ entered[c][1] \in TerminalStates) =>
            /\ Len(entered[c]) = 1
            /\ pc[c] # "loop"
            /\ Done(c) =>
                  /\ result[c] = "response"
                  /\ CurrentState(c) = entered[c][1]
                  /\ response[c] =
                        CASE entered[c][1] = "sales" ->
                               <<Say("All our sales representatives are currently busy, please leave us a message and we will return your call as soon as possible."),
                                 Record>>
                          [] entered[c][1] = "support" ->
                               <<Say("You are being transferred to the support line. A representative will be with you shortly."),
                                 Enqueue("support")>>
                          [] entered[c][1] = "reception" ->
                               <<Dial("+19715701777")>>

\* Requests that entered sales and reception have returned.
C7_Witness ==
    \E c1, c2 \in Calls :
        /\ Returned(c1) /\ entered[c1] = <<"sales">>
        /\ Returned(c2) /\ entered[c2] = <<"reception">>

\* C8: with the requests of different calls interleaved, the ivr_state a
\* call reads is the one its own last request wrote, two calls never share
\* a session key, and every finished request has the response and leaves the
\* ivr_state that the same request has when run alone.
C8_CallsDoNotInterfere ==
    /\ \A c \in Calls : CurrentState(c) = own[c]
    /\ \A c1, c2 \in Calls : c1 # c2 => SessionKey(c1) # SessionKey(c2)
    /\ \A c \in Calls :
          Done(c) =>
              LET alone == TurnAlone(stored[c], digits[c]) IN
              /\ response[c] = alone.response
              /\ CurrentState(c) = alone.ivr_state

\* Two calls are inside enter_state at once, on different states, one of
\* them with an earlier request behind it.
C8_Witness ==
    \E c1, c2 \in Calls :
        /\ c1 # c2
        /\ pc[c1] = "entered" /\ pc[c2] = "entered"
        /\ stored[c1] = "menu" /\ state[c1] = "hours"
        /\ stored[c2] = None /\ state[c2] = "greeting"

\* C9: 'greeting', every str exit handler of IVR and every state exit_menu
\* or exit_hours returns is a key of IVR, and no request fails in the lookup
\* IVR[state].
C9_TableClosed ==
    /\ NewCallState \in DOMAIN IVR
    /\ \A s \in DOMAIN IVR : IsStr(IVR[s].exit) => IVR[s].exit.name \in DOMAIN IVR
    /\ \A d \in Inputs : exit_menu(d) \in DOMAIN IVR /\ exit_hours(d) \in DOMAIN IVR
    /\ \A c \in Calls :
          /\ result[c] # "KeyError"
          /\ pc[c] # "idle" => state[c] \in DOMAIN IVR

\* Requests that took the default of exit_menu and the default of
\* exit_hours have gone through their lookups and returned.
C9_Witness ==
    \E c1, c2 \in Calls :
        /\ Returned(c1) /\ stored[c1] = "menu" /\ entered[c1] = <<"error", "menu">>
        /\ Returned(c2) /\ stored[c2] = "hours" /\ entered[c2] = <<"menu">>

\* C10: a request whose stored state has an exit handler that is no
\* function (sales, support, reception, greeting, error) ends in an
\* exception: it enters no state, returns no verbs, and leaves the ivr_state
\* as it was.
C10_ExitOnNonFunctionFails ==
    \A c \in Calls :
        stored[c] \in TerminalStates \cup AutoChainStates =>
            /\ Done(c)
            /\ result[c] = "TypeError"
            /\ entered[c] = <<>>
            /\ response[c] = <<>>
            /\ CurrentState(c) = stored[c]

\* A request on a stored 'greeting' has failed.
C10_Witness ==
    \E c \in Calls :
        stored[c] = "greeting" /\ result[c] = "TypeError" /\ digits[c] = "1"

(* ---------------------------------------------------------------------- *)
(* C11, C12: tables with a cycle and with a dangling reference             *)
(* ---------------------------------------------------------------------- *)

\* C11: with a table whose str exit handlers form a cycle, enter_state stops
\* chaining after a bounded number of entries (the table's size plus one)
\* and the request fails, instead of going round for ever.
C11_ChainDepthGuarded ==
    \A c \in Calls :
        /\ Len(entered[c]) <= Cardinality(DOMAIN Table) + 1
        /\ Len(entered[c]) = Cardinality(DOMAIN Table) + 1 =>
              (pc[c] = "idle" /\ result[c] \notin {"none", "response"})

\* C12: a table with a reference to a state that is no key is refused when
\* the process starts: no request of any call is the first to find the
\* missing key, so no request ends in the KeyError of the lookup.
C12_DanglingRejectedAtStart ==
    \A c \in Calls :
        /\ result[c] # "KeyError"
        /\ CurrentState(c) \in DOMAIN Table \cup {None}

(* ---------------------------------------------------------------------- *)
(* C13..C19: what a request is a function of, the order of its verbs, the  *)
(* session inside and between requests                                     *)
(* ---------------------------------------------------------------------- *)

\* The verbs the enter handler of state s returns, as a sequence.
VerbsOf(s) ==
    IF Table[s].enter.list THEN Table[s].enter.value ELSE <<Table[s].enter.value>>

\* The verbs of the enter handlers of a sequence of states, in that order.
RECURSIVE Flatten(_)
Flatten(states) ==
    IF states = <<>> THEN <<>>
    ELSE VerbsOf(Head(states)) \o Flatten(Tail(states))

Last(seq) == seq[Len(seq)]

\* C13: two finished requests that started from the same stored state with
\* the same Digits ended the same way, entered the same states (the resolver
\* gave the same target), returned the same verbs and left the same
\* ivr_state, whatever requests of either call ran before.
C13_TurnIsAFunctionOfStoredAndDigits ==
    \A c1, c2 \in Calls :
        (Done(c1) /\ Done(c2) /\ stored[c1] = stored[c2] /\ digits[c1] = digits[c2]) =>
            /\ result[c1] = result[c2]
            /\ entered[c1] = entered[c2]
            /\ response[c1] = response[c2]
            /\ CurrentState(c1) = CurrentState(c2)

\* Two calls have each finished a request on 'menu' with "3".
C13_Witness ==
    \E c1, c2 \in Calls :
        /\ c1 # c2
        /\ Returned(c1) /\ Returned(c2)
        /\ stored[c1] = "menu" /\ stored[c2] = "menu"
        /\ digits[c1] = "3" /\ digits[c2] = "3"

\* C14: the verbs a request returns are the verbs of the enter handlers of
\* the states it entered, in the order it entered them, each state's verbs
\* once per entry and in the handler's own order (sales: Say, then Record);
\* inside the request the response holds the verbs of the states whose
\* handler has run.
C14_ResponseIsConcatenation ==
    \A c \in Calls :
        /\ Returned(c) => response[c] = Flatten(entered[c])
        /\ pc[c] = "loop" => response[c] = Flatten(entered[c])
        /\ pc[c] = "entered" =>
              response[c] = Flatten(SubSeq(entered[c], 1, Len(entered[c]) - 1))
        /\ (Returned(c) /\ entered[c] = <<"sales">>) =>
              /\ Len(response[c]) = 2
              /\ response[c][1].verb = "Say"
              /\ response[c][2] = Record

\* A request that entered 'error' and then 'menu' has returned, and one that
\* entered 'sales'.
C14_Witness ==
    \E c1, c2 \in Calls :
        /\ Returned(c1) /\ entered[c1] = <<"error", "menu">>
        /\ Returned(c2) /\ entered[c2] = <<"sales">>

\* C15: in every iteration of the loop of enter_state the ivr_state is set
\* to the state of that iteration before its enter handler runs and before
\* its exit handler is looked at: once a request has entered a state, the
\* ivr_state is the state it entered last, never the one before.
C15_SessionSetBeforeHandlerRuns ==
    \A c \in Calls :
        /\ entered[c] # <<>> => CurrentState(c) = Last(entered[c])
        /\ pc[c] = "entered" =>
              /\ CurrentState(c) = state[c]
              /\ Len(response[c]) = Len(Flatten(SubSeq(entered[c], 1, Len(entered[c]) - 1)))

\* A request is in its second iteration, with 'menu' written to the session
\* and the handler of 'menu' not yet run.
C15_Witness ==
    \E c \in Calls :
        /\ pc[c] = "entered"
        /\ entered[c] = <<"greeting", "menu">>
        /\ Len(response[c]) = 1
        /\ CurrentState(c) = "menu"

\* C16: when a request has returned, the ivr_state is the state it entered
\* last, the one whose exit handler is no str; between requests the
\* ivr_state is never 'greeting' or 'error'.
C16_StoredStateIsYieldPoint ==
    \A c \in Calls :
        /\ Returned(c) =>
              /\ CurrentState(c) = Last(entered[c])
              /\ ~IsStr(IVR[CurrentState(c)].exit)
        /\ pc[c] = "idle" => CurrentState(c) \notin AutoChainStates

\* Requests that went through 'greeting' and through 'error' have returned.
C16_Witness ==
    \E c1, c2 \in Calls :
        /\ Returned(c1) /\ entered[c1] = <<"greeting", "menu">>
        /\ Returned(c2) /\ entered[c2] = <<"error", "menu">>

\* C17: no step of any request, failing ones included, takes a call's
\* ivr_state from a state back to none, and what is written is a key of
\* the table.
C17_StateNeverAbsentAgain ==
    [][\A c \in Calls :
          /\ CurrentState(c) # None => CurrentState(c)' # None
          /\ CurrentState(c)' # CurrentState(c) => CurrentState(c)' \in DOMAIN IVR]_vars

\* A request has failed in exit_state and the ivr_state is still there.
C17_Witness ==
    \E c \in Calls :
        Done(c) /\ result[c] = "TypeError" /\ CurrentState(c) = "sales"

\* C18: with the shipped table every request ends: it enters at most two
\* states, goes back to the top of the loop at most once, and until it has
\* ended its next step can be taken.
C18_AtMostTwoStatesPerTurn ==
    \A c \in Calls :
        /\ Len(entered[c]) <= 2
        /\ pc[c] = "loop" => Len(entered[c]) = 1
        /\ (pc[c] = "entered" /\ Len(entered[c]) = 2) => ~IsStr(IVR[state[c]].exit)
        /\ pc[c] # "idle" => ENABLED (enter_state_run(c) \/ enter_state_loop(c))

\* A request that entered two states has returned.
C18_Witness ==
    \E c \in Calls : Returned(c) /\ Len(entered[c]) = 2 /\ stored[c] = "menu"

\* C19: 'greeting' is entered once, by the first request of a call: no
\* resolver and no str exit handler names it, and a request that started
\* with a stored state neither enters 'greeting' nor returns its Say.
C19_GreetingOnlyInFirstTurn ==
    /\ \A d \in Inputs : exit_menu(d) # "greeting" /\ exit_hours(d) # "greeting"
    /\ \A s \in DOMAIN IVR : IVR[s].exit.name # "greeting"
    /\ \A c \in Calls :
          /\ stored[c] # None =>
                /\ \A i \in 1..Len(entered[c]) : entered[c][i] # "greeting"
                /\ \A i \in 1..Len(response[c]) :
                      response[c][i] # Say("Welcome to ACME, Inc.")
          /\ (stored[c] = None /\ entered[c] # <<>>) =>
                Cardinality({i \in 1..Len(entered[c]) : entered[c][i] = "greeting"}) = 1

\* A later request of a call has returned the menu again.
C19_Witness ==
    \E c \in Calls :
        Returned(c) /\ stored[c] = "menu" /\ digits[c] = "9" /\ entered[c] = <<"menu">>

====
